---- MODULE Spec2Model ----
(***************************************************************************)
(* CurveAdm: the "format chunkfile pool" task (internal/task/task/bs/       *)
(* format.go), its fstab-edit composite step, and the task engine and the   *)
(* memory store that run it.                                                *)
(*                                                                          *)
(* A string is a sequence of tokens; Text gives the characters of a token   *)
(* and Chars those of a string.  Whatever the code does with the content of *)
(* a string (strings.Contains, the regular expression, sed) is done on its  *)
(* characters.                                                              *)
(***************************************************************************)
EXTENDS Integers, Sequences, FiniteSets, TLC

(* ------------------------------ bounds --------------------------------- *)

\* number of format tasks the surrounding system drives concurrently
NumTasks == 2
\* number of times the date changes while the tasks run
MaxDay == 1
\* number of iSCSI targets the host can hold before the script runs
MaxTid == 2

Tasks == 1..NumTasks

(* ------------------------------ strings -------------------------------- *)

\* the characters of a token; a token that is not listed is one character
Text(tok) ==
    CASE tok = "not a block device" ->
         <<"n","o","t"," ","a"," ","b","l","o","c","k"," ","d","e","v","i",
           "c","e">>
      [] tok = "GENERATED BY CURVEADM, DONT EDIT THIS" ->
         <<"G","E","N","E","R","A","T","E","D"," ","B","Y"," ","C","U","R",
           "V","E","A","D","M",","," ","D","O","N","T"," ","E","D","I","T",
           " ","T","H","I","S">>
      [] tok = "82511eb8-e4e3-4a50-a736-d584fbf533fa" ->
         <<"8","2","5","1","1","e","b","8","-","e","4","e","3","-","4","a",
           "5","0","-","a","7","3","6","-","d","5","8","4","f","b","f","5",
           "3","3","f","a">>
      [] tok = "0c9f2d41-77aa-4b1e-9c3d-5e6f708192ab" ->
         <<"0","c","9","f","2","d","4","1","-","7","7","a","a","-","4","b",
           "1","e","-","9","c","3","d","-","5","e","6","f","7","0","8","1",
           "9","2","a","b">>
      [] tok = "82511eb8-e4e3" ->
         <<"8","2","5","1","1","e","b","8","-","e","4","e","3">>
      [] tok = "blkid: not a block device" ->
         <<"b","l","k","i","d",":"," ","n","o","t"," ","a"," ","b","l","o",
           "c","k"," ","d","e","v","i","c","e">>
      [] tok = "/UUID=" ->
         <<"/","U","U","I","D","=">>
      [] tok = "/d" ->
         <<"/","d">>
      [] tok = "$ a " ->
         <<"$"," ","a"," ">>
      [] tok = "UUID=" ->
         <<"U","U","I","D","=">>
      [] tok = "  " ->
         <<" "," ">>
      [] tok = "  ext4  rw,errors=remount-ro  0  0  # " ->
         <<" "," ","e","x","t","4"," "," ","r","w",",","e","r","r","o","r",
           "s","=","r","e","m","o","u","n","t","-","r","o"," "," ","0"," ",
           " ","0"," "," ","#"," ">>
      [] tok = "/dev/sda1  /  ext4  defaults  0  1" ->
         <<"/","d","e","v","/","s","d","a","1"," "," ","/"," "," ","e","x",
           "t","4"," "," ","d","e","f","a","u","l","t","s"," "," ","0"," ",
           " ","1">>
      [] tok = "/data/c0" ->
         <<"/","d","a","t","a","/","c","0">>
      [] tok = "/data/c1" ->
         <<"/","d","a","t","a","/","c","1">>
      [] tok = "true" ->
         <<"t","r","u","e">>
      [] tok = "false" ->
         <<"f","a","l","s","e">>
      [] tok = "CreateFile fail with errCode: 101" ->
         <<"C","r","e","a","t","e","F","i","l","e"," ","f","a","i","l"," ",
           "w","i","t","h"," ","e","r","r","C","o","d","e",":"," ","1","0",
           "1">>
      [] tok = "CreateFile fail with errCode: 155" ->
         <<"C","r","e","a","t","e","F","i","l","e"," ","f","a","i","l"," ",
           "w","i","t","h"," ","e","r","r","C","o","d","e",":"," ","1","5",
           "5">>
      [] OTHER -> <<tok>>

RECURSIVE Chars(_)
Chars(s) == IF s = <<>> THEN <<>> ELSE Text(Head(s)) \o Chars(Tail(s))

\* len(s)
StrLen(s) == Len(Chars(s))

\* s[n:]
RECURSIVE DropChars(_, _)
DropChars(s, n) ==
    IF n = 0 \/ s = <<>> THEN s
    ELSE LET h == Text(Head(s))
         IN  IF Len(h) <= n THEN DropChars(Tail(s), n - Len(h))
             ELSE SubSeq(h, n + 1, Len(h)) \o Tail(s)

\* strings.Contains(s, sub), on characters
Contains(s, sub) ==
    \E i \in 0..(Len(s) - Len(sub)) :
        \A j \in 1..Len(sub) : s[i + j] = sub[j]

HasPrefix(s, p) == Len(s) >= Len(p) /\ SubSeq(s, 1, Len(p)) = p
HasSuffix(s, p) == Len(s) >= Len(p) /\ SubSeq(s, Len(s) - Len(p) + 1, Len(s)) = p

(* --------------------------- string constants -------------------------- *)

EMPTY == <<>>

SIGNATURE_NOT_A_BLOCK_DEVICE == <<"not a block device">>

WARNING_EDIT == <<"GENERATED BY CURVEADM, DONT EDIT THIS">>

\* the length and the positions that "^.{8}-.{4}-.{4}-.{4}-.{12}$" fixes
REEGX_DEVICE_UUID == [len |-> 36, hyphens |-> {9, 14, 19, 24}]

\* regexp.MustCompile(REEGX_DEVICE_UUID).FindStringSubmatch(s) is not empty,
\* on characters ("." matches any character but a newline)
MatchDeviceUUID(s) ==
    /\ Len(s) = REEGX_DEVICE_UUID.len
    /\ \A i \in 1..Len(s) :
          IF i \in REEGX_DEVICE_UUID.hyphens THEN s[i] = "-" ELSE s[i] # "\n"

\* what the probe of a device can print
UUID_A == <<"82511eb8-e4e3-4a50-a736-d584fbf533fa">>
UUID_B == <<"0c9f2d41-77aa-4b1e-9c3d-5e6f708192ab">>
UUID_SHORT == <<"82511eb8-e4e3">>
OUT_NOT_BLOCK == <<"blkid: not a block device">>

ProbeOutputs == {EMPTY, UUID_A, UUID_B, UUID_SHORT, OUT_NOT_BLOCK}

\* what a remote call hands back: its exit status and its output
Env == [ok : BOOLEAN, out : ProbeOutputs]

\* what the step of that kind can be handed: only the probe's output is
\* read, and a lambda makes no remote call
EnvOf(kind) ==
    IF kind = "BlockId" THEN Env
    ELSE IF kind \in {"skipFormat", "checkDeviceUUID", "expression"}
    THEN {[ok |-> TRUE, out |-> EMPTY]}
    ELSE [ok : BOOLEAN, out : {EMPTY}]

RootLine == <<"/dev/sda1  /  ext4  defaults  0  1">>
MP0 == <<"/data/c0">>
MP1 == <<"/data/c1">>

\* utils.MD5Sum(device), for the devices of the model
MD5Sum(device) ==
    CASE device = "/dev/sdb" -> "bf20f6a37aac19afbbbc2e9364f522c3"
      [] device = "/dev/sdc" -> "81dde30aa3d9bf946fb0281f260b68e4"

\* fmt.Sprintf("curvebs-format-%s", utils.MD5Sum(device))
device2ContainerName(device) == <<"curvebs-format-", MD5Sum(device)>>

(* ------------------------------- errors -------------------------------- *)

Nil == [kind |-> "nil", args |-> <<>>]

ERR_SKIP_TASK == [kind |-> "ERR_SKIP_TASK", args |-> <<>>]

\* errno.ERR_NOT_A_BLOCK_DEVICE.F("host=%s device=%s", host, device)
ERR_NOT_A_BLOCK_DEVICE(h, device) ==
    [kind |-> "ERR_NOT_A_BLOCK_DEVICE", args |-> <<h, device>>]

\* errno.ERR_GET_DEVICE_UUID_FAILED.F("host=%s device=%s uuid=%s", host, device, uuid)
ERR_GET_DEVICE_UUID_FAILED(h, device, uuid) ==
    [kind |-> "ERR_GET_DEVICE_UUID_FAILED", args |-> <<h, device, uuid>>]

\* the error kind a command step maps a failed remote call to
ERR_REMOTE(stepKind) ==
    [kind |-> "remote-operation-failed", args |-> <<stepKind>>]

(* ------------------------------ variables ------------------------------ *)

VARIABLES
    fc,         \* fc[t]: the FormatConfig task t was built from
    pc,         \* pc[t]: index of the step of task t that runs next
    outcome,    \* outcome[t]: terminal outcome of task t, or running
    vars,       \* vars[t]: the variables the steps of task t share by reference
    edit,       \* edit[t]: the running execute() of the fstab step of task t
    locked,     \* the mutex of the memory store
    host,       \* the state of the remote host
    today,      \* the date on the machine that runs the tasks
    log,        \* log[t]: the steps task t has executed, with their results
    sh          \* the run of the target-registration script

\* the variables of the format tasks
formatvars == <<fc, pc, outcome, vars, edit, locked, host, today, log>>

allvars == <<fc, pc, outcome, vars, edit, locked, host, today, log, sh>>

(* ------------------------- collaborators' inputs ----------------------- *)

\* os.GetFSTabPath()
GetFSTabPath == <<"/etc/fstab">>

\* time.Now().Format("2006-01-02")
FormatDate(day) == <<2021, 12, 27 + day>>

\* fmt.Sprintf("%s-%s.backup", os.GetFSTabPath(), now)
BackupPath(now) == <<"/etc/fstab", "-", now, ".backup">>

\* topology.GetCurveBSProjectLayout().ChunkfilePoolRootDir
ChunkfilePoolRootDir == "/curvebs/chunkserver/data"

FormatConfigs ==
    { [host |-> "node1", device |-> "/dev/sdb", mountPoint |-> MP0,
       image |-> "opencurvedocker/curvebs"],
      [host |-> "node1", device |-> "/dev/sdc", mountPoint |-> MP1,
       image |-> "opencurvedocker/curvebs"] }

(* --------------------------- step descriptors -------------------------- *)

StepDesc(kind, label, arg, out) ==
    [kind |-> kind, label |-> label, arg |-> arg, out |-> out]

StepResult(err, v, h) == [err |-> err, vars |-> v, host |-> h]

(* ------------------------------ lambdas -------------------------------- *)

\* skipFormat that never skips
skipFormat_Never(containerId) == Nil

\* skipFormat with the test of the length inverted
skipFormat_Inverted(containerId) ==
    IF StrLen(containerId) = 0 THEN ERR_SKIP_TASK ELSE Nil

skipFormat(containerId) ==
    IF StrLen(containerId) > 0 THEN ERR_SKIP_TASK ELSE Nil

\* checkDeviceUUID that rejects only a string with the marker
checkDeviceUUID_MarkerOnly(h, device, success, uuid) ==
    IF Contains(Chars(uuid), Chars(SIGNATURE_NOT_A_BLOCK_DEVICE))
    THEN ERR_NOT_A_BLOCK_DEVICE(h, device)
    ELSE Nil

checkDeviceUUID(h, device, success, uuid) ==
    IF ~success
    THEN IF Contains(Chars(uuid), Chars(SIGNATURE_NOT_A_BLOCK_DEVICE))
         THEN ERR_NOT_A_BLOCK_DEVICE(h, device)
         ELSE ERR_GET_DEVICE_UUID_FAILED(h, device, uuid)
    ELSE IF ~MatchDeviceUUID(Chars(uuid))
         THEN ERR_GET_DEVICE_UUID_FAILED(h, device, uuid)
         ELSE Nil

\* fmt.Sprintf("/UUID=%s/d", *s.oldUUID)
Express2del(oldUUID) == <<"/UUID=">> \o oldUUID \o <<"/d">>

\* fmt.Sprintf("$ a UUID=%s  %s  ext4  rw,errors=remount-ro  0  0  # %s", ...)
Express2add(uuid, mountPoint) ==
    <<"$ a ", "UUID=">> \o uuid \o <<"  ">> \o mountPoint
    \o <<"  ext4  rw,errors=remount-ro  0  0  # ">> \o WARNING_EDIT

expression(v, mountPoint) ==
    [v EXCEPT !.express2del = Express2del(v.oldUUID),
              !.express2add = Express2add(v.uuid, mountPoint)]

(* ---------------------------- command steps ---------------------------- *)

ListContainers(st, v, h, env) ==
    IF ~env.ok THEN StepResult(ERR_REMOTE(st.kind), v, h)
    ELSE LET found == {c \in h.containers : c.name = st.arg}
             id == IF found = {} THEN EMPTY ELSE (CHOOSE c \in found : TRUE).id
         IN  StepResult(Nil, [v EXCEPT ![st.out] = id], h)

\* the probe hands its output over whether it failed or not
BlockId(st, v, h, env) ==
    StepResult(IF env.ok THEN Nil ELSE ERR_REMOTE(st.kind),
               [v EXCEPT ![st.out] = env.out], h)

UmountFilesystem(st, v, h, env) ==
    IF ~env.ok THEN StepResult(ERR_REMOTE(st.kind), v, h)
    ELSE StepResult(Nil, v,
            [h EXCEPT !.mounts = {m \in h.mounts : m[1] # st.arg}])

CreateDirectory(st, v, h, env) ==
    IF ~env.ok THEN StepResult(ERR_REMOTE(st.kind), v, h)
    ELSE StepResult(Nil, v, [h EXCEPT !.dirs = h.dirs \cup {st.arg}])

CreateFilesystem(st, v, h, env) ==
    IF ~env.ok THEN StepResult(ERR_REMOTE(st.kind), v, h)
    ELSE StepResult(Nil, v, [h EXCEPT !.formatted = h.formatted \cup {st.arg}])

MountFilesystem(st, v, h, env) ==
    IF ~env.ok THEN StepResult(ERR_REMOTE(st.kind), v, h)
    ELSE StepResult(Nil, v, [h EXCEPT !.mounts = h.mounts \cup {st.arg}])

\* the number of times the file at that path has been written
Writes(h, path) == IF path \in DOMAIN h.writes THEN h.writes[path] ELSE 0

\* cp --no-clobber Source Dest
CopyFile(st, v, h, env) ==
    IF ~env.ok THEN StepResult(ERR_REMOTE(st.kind), v, h)
    ELSE IF st.arg.NoClobber /\ st.arg.Dest \in DOMAIN h.files
         THEN StepResult(Nil, v, h)
         ELSE StepResult(Nil, v,
                [h EXCEPT !.files = (st.arg.Dest :> h.files[st.arg.Source])
                                     @@ h.files,
                          !.writes = (st.arg.Dest :> (Writes(h, st.arg.Dest) + 1))
                                     @@ h.writes])

\* the lines that the pattern (characters) does not match
RECURSIVE DeleteMatching(_, _)
DeleteMatching(lines, pattern) ==
    IF lines = <<>> THEN <<>>
    ELSE IF Contains(Chars(Head(lines)), pattern)
         THEN DeleteMatching(Tail(lines), pattern)
         ELSE <<Head(lines)>> \o DeleteMatching(Tail(lines), pattern)

\* sed -i EXPR file, for the two expression forms the task builds:
\* "/PATTERN/d" deletes every line PATTERN matches, "$ a TEXT" appends TEXT
\* after the last line (an empty file has no last line)
SedScript(lines, expr) ==
    LET e == Chars(expr)
    IN  IF HasPrefix(e, Chars(<<"$ a ">>))
        THEN [ok |-> TRUE,
              lines |-> IF lines = <<>> THEN lines
                        ELSE Append(lines, DropChars(expr, 4))]
        ELSE IF HasPrefix(e, <<"/">>) /\ HasSuffix(e, <<"/", "d">>) /\ Len(e) >= 3
        THEN LET pattern == SubSeq(e, 2, Len(e) - 2)
             IN  IF Contains(pattern, <<"/">>)
                 THEN [ok |-> FALSE, lines |-> lines]
                 ELSE [ok |-> TRUE, lines |-> DeleteMatching(lines, pattern)]
        ELSE [ok |-> FALSE, lines |-> lines]

Sed(st, v, h, env) ==
    LET r == SedScript(h.files[st.arg.File], v[st.arg.Expression])
    IN  IF ~env.ok \/ ~r.ok THEN StepResult(ERR_REMOTE(st.kind), v, h)
        ELSE StepResult(Nil, v,
                [h EXCEPT !.files[st.arg.File] = r.lines,
                          !.writes = (st.arg.File :> (Writes(h, st.arg.File) + 1))
                                     @@ h.writes])

PullImage(st, v, h, env) ==
    IF ~env.ok THEN StepResult(ERR_REMOTE(st.kind), v, h)
    ELSE StepResult(Nil, v, [h EXCEPT !.images = h.images \cup {st.arg}])

ContainerId(name) == <<"id-", name[2]>>

\* docker create --name Name --rm -v HostPath:ContainerPath Image Command
CreateContainer(st, v, h, env) ==
    IF ~env.ok \/ \E c \in h.containers : c.name = st.arg.Name
    THEN StepResult(ERR_REMOTE(st.kind), v, h)
    ELSE StepResult(Nil, [v EXCEPT ![st.out] = ContainerId(st.arg.Name)],
            [h EXCEPT !.containers = h.containers \cup
                {[name |-> st.arg.Name, id |-> ContainerId(st.arg.Name),
                  state |-> "created", volume |-> st.arg.Volume,
                  script |-> FALSE]}])

InstallFile(st, v, h, env) ==
    IF ~env.ok \/ ~\E c \in h.containers : c.id = v[st.arg]
    THEN StepResult(ERR_REMOTE(st.kind), v, h)
    ELSE StepResult(Nil, v,
            [h EXCEPT !.containers =
                {IF c.id = v[st.arg] THEN [c EXCEPT !.script = TRUE] ELSE c
                 : c \in h.containers}])

StartContainer(st, v, h, env) ==
    IF ~env.ok \/ ~\E c \in h.containers : c.id = v[st.arg]
    THEN StepResult(ERR_REMOTE(st.kind), v, h)
    ELSE StepResult(Nil, v,
            [h EXCEPT !.containers =
                {IF c.id = v[st.arg] THEN [c EXCEPT !.state = "started"] ELSE c
                 : c \in h.containers}])

\* step.Lambda{...}.Execute and every command step's Execute
StepExecute(st, v, h, env) ==
    CASE st.kind = "ListContainers"   -> ListContainers(st, v, h, env)
      [] st.kind = "skipFormat"       -> StepResult(skipFormat(v[st.arg]), v, h)
      [] st.kind = "BlockId"          -> BlockId(st, v, h, env)
      [] st.kind = "UmountFilesystem" -> UmountFilesystem(st, v, h, env)
      [] st.kind = "CreateDirectory"  -> CreateDirectory(st, v, h, env)
      [] st.kind = "CreateFilesystem" -> CreateFilesystem(st, v, h, env)
      [] st.kind = "MountFilesystem"  -> MountFilesystem(st, v, h, env)
      [] st.kind = "CopyFile"         -> CopyFile(st, v, h, env)
      [] st.kind = "checkDeviceUUID"  ->
            StepResult(checkDeviceUUID(st.arg.host, st.arg.device,
                                       v.success, v.uuid), v, h)
      [] st.kind = "expression"       -> StepResult(Nil, expression(v, st.arg), h)
      [] st.kind = "Sed"              -> Sed(st, v, h, env)
      [] st.kind = "PullImage"        -> PullImage(st, v, h, env)
      [] st.kind = "CreateContainer"  -> CreateContainer(st, v, h, env)
      [] st.kind = "InstallFile"      -> InstallFile(st, v, h, env)
      [] st.kind = "StartContainer"   -> StartContainer(st, v, h, env)

(* ------------------------- the format task ----------------------------- *)

\* the task with mkfs added before the unmount
NewFormatChunkfilePoolTask_MkfsFirst(c) ==
    LET containerName == device2ContainerName(c.device)
    IN  << StepDesc("ListContainers", "list containers", containerName, "oldContainerId"),
           StepDesc("skipFormat", "skip check", "oldContainerId", ""),
           StepDesc("BlockId", "probe old uuid", c.device, "oldUUID"),
           StepDesc("CreateFilesystem", "mkfs", c.device, ""),
           StepDesc("UmountFilesystem", "umount", c.device, ""),
           StepDesc("CreateDirectory", "mkdir", c.mountPoint, ""),
           StepDesc("MountFilesystem", "mount", <<c.device, c.mountPoint>>, ""),
           StepDesc("step2EditFSTab", "edit fstab",
                    [host |-> c.host, device |-> c.device,
                     mountPoint |-> c.mountPoint, skipAdd |-> FALSE], ""),
           StepDesc("PullImage", "pull image", c.image, ""),
           StepDesc("CreateContainer", "create container",
                    [Image |-> c.image, Name |-> containerName,
                     Volume |-> [HostPath |-> c.mountPoint,
                                 ContainerPath |-> ChunkfilePoolRootDir]],
                    "containerId"),
           StepDesc("InstallFile", "install script", "containerId", ""),
           StepDesc("StartContainer", "start container", "containerId", "") >>

\* the steps NewFormatChunkfilePoolTask adds, in the order it adds them
NewFormatChunkfilePoolTask(c) ==
    LET containerName == device2ContainerName(c.device)
    IN  << StepDesc("ListContainers", "list containers", containerName, "oldContainerId"),
           StepDesc("skipFormat", "skip check", "oldContainerId", ""),
           StepDesc("BlockId", "probe old uuid", c.device, "oldUUID"),
           StepDesc("UmountFilesystem", "umount", c.device, ""),
           StepDesc("CreateDirectory", "mkdir", c.mountPoint, ""),
           StepDesc("CreateFilesystem", "mkfs", c.device, ""),
           StepDesc("MountFilesystem", "mount", <<c.device, c.mountPoint>>, ""),
           StepDesc("step2EditFSTab", "edit fstab",
                    [host |-> c.host, device |-> c.device,
                     mountPoint |-> c.mountPoint, skipAdd |-> FALSE], ""),
           StepDesc("PullImage", "pull image", c.image, ""),
           StepDesc("CreateContainer", "create container",
                    [Image |-> c.image, Name |-> containerName,
                     Volume |-> [HostPath |-> c.mountPoint,
                                 ContainerPath |-> ChunkfilePoolRootDir]],
                    "containerId"),
           StepDesc("InstallFile", "install script", "containerId", ""),
           StepDesc("StartContainer", "start container", "containerId", "") >>

\* the sub-steps with a backup that overwrites
execute_steps_Clobber(s, oldUUID, now) ==
    << StepDesc("CopyFile", "backup fstab",
                [Source |-> GetFSTabPath, Dest |-> BackupPath(now),
                 NoClobber |-> FALSE], ""),
       StepDesc("BlockId", "uuid for device", s.device, "uuid"),
       StepDesc("checkDeviceUUID", "check uuid",
                [host |-> s.host, device |-> s.device], ""),
       StepDesc("expression", "generate record", s.mountPoint, "") >>
    \o (IF StrLen(oldUUID) > 0
        THEN << StepDesc("Sed", "remove old record",
                         [File |-> GetFSTabPath, Expression |-> "express2del"], "") >>
        ELSE << >>)
    \o (IF ~s.skipAdd
        THEN << StepDesc("Sed", "add new record",
                         [File |-> GetFSTabPath, Expression |-> "express2add"], "") >>
        ELSE << >>)

\* the sub-steps step2EditFSTab.execute builds
execute_steps(s, oldUUID, now) ==
    << StepDesc("CopyFile", "backup fstab",
                [Source |-> GetFSTabPath, Dest |-> BackupPath(now),
                 NoClobber |-> TRUE], ""),
       StepDesc("BlockId", "uuid for device", s.device, "uuid"),
       StepDesc("checkDeviceUUID", "check uuid",
                [host |-> s.host, device |-> s.device], ""),
       StepDesc("expression", "generate record", s.mountPoint, "") >>
    \o (IF StrLen(oldUUID) > 0
        THEN << StepDesc("Sed", "remove old record",
                         [File |-> GetFSTabPath, Expression |-> "express2del"], "") >>
        ELSE << >>)
    \o (IF ~s.skipAdd
        THEN << StepDesc("Sed", "add new record",
                         [File |-> GetFSTabPath, Expression |-> "express2add"], "") >>
        ELSE << >>)

Steps(t) == NewFormatChunkfilePoolTask(fc[t])
CurStep(t) == Steps(t)[pc[t]]

\* the list execute built when it began: *s.oldUUID, s.skipAdd and now do
\* not change while it runs
EditSteps(t) == execute_steps(CurStep(t).arg, vars[t].oldUUID, edit[t].now)

Running(t) == outcome[t].status = "running"
InTX(t) == edit[t].pc > 0

Result(err) ==
    IF err = Nil THEN "continue" ELSE IF err = ERR_SKIP_TASK THEN "skip" ELSE "fail"

LogEntry(st, err) == <<st.label, Result(err)>>

(* ------------------------------ the engine ----------------------------- *)

\* Task.Execute, after the step at pc[t] returned err
TaskAdvance(t, err) ==
    IF err = Nil
    THEN /\ pc' = [pc EXCEPT ![t] = pc[t] + 1]
         /\ outcome' = [outcome EXCEPT ![t] =
                IF pc[t] = Len(Steps(t))
                THEN [status |-> "succeeded", err |-> Nil] ELSE outcome[t]]
    ELSE /\ pc' = pc
         /\ outcome' = [outcome EXCEPT ![t] =
                IF err = ERR_SKIP_TASK
                THEN [status |-> "skipped", err |-> Nil]
                ELSE [status |-> "failed", err |-> err]]

\* Task.Execute runs the next step, a command step or a lambda
TaskStep(t) ==
    /\ Running(t)
    /\ pc[t] <= Len(Steps(t))
    /\ CurStep(t).kind # "step2EditFSTab"
    /\ \E env \in EnvOf(CurStep(t).kind) :
          LET r == StepExecute(CurStep(t), vars[t], host, env)
          IN  /\ vars' = [vars EXCEPT ![t] = r.vars]
              /\ host' = r.host
              /\ log' = [log EXCEPT ![t] = Append(@, LogEntry(CurStep(t), r.err))]
              /\ TaskAdvance(t, r.err)
    /\ UNCHANGED <<sh, fc, edit, locked, today>>

(* --------------------------- the memory store -------------------------- *)

\* SafeMap.TX: take the mutex
TXLock == /\ ~locked
          /\ locked' = TRUE

\* TX that keeps the mutex when the callback returned an error
TXUnlock_OnSuccess(err) == locked' = (err # Nil)

\* SafeMap.TX: release the mutex when the callback has returned err
TXUnlock(err) == locked' = FALSE

(* ------------------------- the fstab composite ------------------------- *)

\* step2EditFSTab.execute up to its loop: the locals and the list of sub-steps
execute_begin(t) ==
    /\ vars' = [vars EXCEPT ![t] = [@ EXCEPT !.success = FALSE,
                                             !.express2del = EMPTY,
                                             !.express2add = EMPTY]]
    /\ edit' = [edit EXCEPT ![t] = [pc |-> 1, now |-> FormatDate(today), err |-> Nil]]

\* Execute that calls execute without the transaction
Execute_NoTX(t) ==
    /\ Running(t)
    /\ pc[t] <= Len(Steps(t))
    /\ CurStep(t).kind = "step2EditFSTab"
    /\ ~InTX(t)
    /\ locked' = TRUE
    /\ execute_begin(t)
    /\ UNCHANGED <<sh, fc, pc, outcome, host, today, log>>

\* step2EditFSTab.Execute: the call of TX, up to the first sub-step
Execute(t) ==
    /\ Running(t)
    /\ pc[t] <= Len(Steps(t))
    /\ CurStep(t).kind = "step2EditFSTab"
    /\ ~InTX(t)
    /\ TXLock
    /\ execute_begin(t)
    /\ UNCHANGED <<sh, fc, pc, outcome, host, today, log>>

\* a loop that goes on with the next sub-step after an error
execute_next_KeepGoing(e, n, err) ==
    [e EXCEPT !.err = IF err # Nil THEN err ELSE e.err, !.pc = e.pc + 1]

\* a loop that stops at an error and returns nil
execute_next_ErrorLost(e, n, err) ==
    IF err # Nil THEN [e EXCEPT !.pc = n + 1] ELSE [e EXCEPT !.pc = e.pc + 1]

\* the loop of step2EditFSTab.execute, of n sub-steps, after one returned err
execute_next(e, n, err) ==
    IF err # Nil THEN [e EXCEPT !.err = err, !.pc = n + 1]
    ELSE [e EXCEPT !.pc = e.pc + 1]

\* one iteration of the loop of step2EditFSTab.execute
SubStep(t) ==
    /\ InTX(t)
    /\ edit[t].pc <= Len(EditSteps(t))
    /\ \E env \in EnvOf(EditSteps(t)[edit[t].pc].kind) :
          LET st == EditSteps(t)[edit[t].pc]
              r == StepExecute(st, vars[t], host, env)
          IN  /\ vars' = [vars EXCEPT ![t] = r.vars]
              /\ host' = r.host
              /\ log' = [log EXCEPT ![t] = Append(@, LogEntry(st, r.err))]
              /\ edit' = [edit EXCEPT ![t] =
                            execute_next(edit[t], Len(EditSteps(t)), r.err)]
    /\ UNCHANGED <<sh, fc, pc, outcome, locked, today>>

\* a return that deletes the backup of the day when a sub-step failed
ExecuteReturn_Cleanup(t) ==
    /\ InTX(t)
    /\ edit[t].pc > Len(EditSteps(t))
    /\ TXUnlock(edit[t].err)
    /\ edit' = [edit EXCEPT ![t] = [pc |-> 0, now |-> <<>>, err |-> Nil]]
    /\ log' = [log EXCEPT ![t] = Append(@, LogEntry(CurStep(t), edit[t].err))]
    /\ TaskAdvance(t, edit[t].err)
    /\ host' = IF edit[t].err = Nil THEN host
               ELSE [host EXCEPT !.files =
                        [p \in DOMAIN host.files \ {BackupPath(edit[t].now)}
                            |-> host.files[p]]]
    /\ UNCHANGED <<sh, fc, vars, today>>

\* step2EditFSTab.execute returns, TX releases the mutex and forwards the
\* error, and Task.Execute goes on with it
ExecuteReturn(t) ==
    /\ InTX(t)
    /\ edit[t].pc > Len(EditSteps(t))
    /\ TXUnlock(edit[t].err)
    /\ edit' = [edit EXCEPT ![t] = [pc |-> 0, now |-> <<>>, err |-> Nil]]
    /\ log' = [log EXCEPT ![t] = Append(@, LogEntry(CurStep(t), edit[t].err))]
    /\ TaskAdvance(t, edit[t].err)
    /\ UNCHANGED <<sh, fc, vars, host, today>>

\* midnight passes
Tick ==
    /\ today < MaxDay
    /\ today' = today + 1
    /\ UNCHANGED <<sh, fc, pc, outcome, vars, edit, locked, host, log>>

(* --------------------- the target-registration script ------------------ *)

\* the values of the CREATE argument: true, false, and no argument at all
CreateFlags == {<<"true">>, <<"false">>, EMPTY}

CREATE_FILE_EXISTS == <<"CreateFile fail with errCode: 101">>

\* what curve_ops_tool create can print on its standard output
ToolOutputs ==
    { EMPTY,
      CREATE_FILE_EXISTS,
      CREATE_FILE_EXISTS \o <<"\n">>,
      CREATE_FILE_EXISTS \o <<"2">>,
      <<"CreateFile fail with errCode: 155", "\n">> }

\* the exit statuses of a command
ExitStatuses == {0, 1}

\* [ $g_create == "true" ]: the expansion is not quoted, so an empty value
\* leaves the test with two words, which is an error (status 2)
TestCreate(g_create) ==
    IF g_create = EMPTY THEN 2
    ELSE IF Chars(g_create) = Chars(<<"true">>) THEN 0 ELSE 1

\* $(...): the standard output without its trailing newlines
RECURSIVE CommandSubst(_)
CommandSubst(out) ==
    IF out # <<>> /\ out[Len(out)] = "\n"
    THEN CommandSubst(SubSeq(out, 1, Len(out) - 1))
    ELSE out

\* a check that gives up on every failure of the creation
CreateCheck_AnyFailure(rc, output) ==
    IF rc # 0 THEN "exit" ELSE "go"

\* if [ $? -ne 0 ]; then if [ "$output" != "CreateFile ... 101" ]; then exit 1
CreateCheck(rc, output) ==
    IF rc # 0 /\ Chars(output) # Chars(CREATE_FILE_EXISTS) THEN "exit" ELSE "go"

\* the four tgtadm calls that register the target, in the order of the script
TgtOps == <<"new", "lun", "update", "bind">>

\* the script before its first command
TargetStart(g_create, tids) ==
    [pc |-> "prepare", g_create |-> g_create, g_tid |-> 1, i |-> 1, op |-> 1,
     output |-> EMPTY, rc |-> 0, status |-> 0, exit |-> -1, tids |-> tids,
     cmds |-> <<>>]

\* no script runs
TargetOff == [TargetStart(EMPTY, {}) EXCEPT !.pc = "off"]

\* mkdir -p /curvebs/nebd/data/lock; touch /etc/curve/curvetab
Target_Prepare ==
    /\ sh.pc = "prepare"
    /\ sh' = [sh EXCEPT !.pc = "create", !.cmds = @ \o <<"mkdir", "touch">>]
    /\ UNCHANGED formatvars

\* if [ $g_create == "true" ]; then output=$(curve_ops_tool create ...) ... fi
Target_Create ==
    /\ sh.pc = "create"
    /\ IF TestCreate(sh.g_create) = 0
       THEN \E rc \in ExitStatuses, out \in ToolOutputs :
               LET output == CommandSubst(out)
               IN  sh' = IF CreateCheck(rc, output) = "exit"
                         THEN [sh EXCEPT !.pc = "done", !.exit = 1,
                                         !.output = output, !.rc = rc,
                                         !.status = rc, !.cmds = Append(@, "create")]
                         ELSE [sh EXCEPT !.pc = "scan",
                                         !.output = output, !.rc = rc,
                                         !.status = rc, !.cmds = Append(@, "create")]
       ELSE sh' = [sh EXCEPT !.pc = "scan", !.status = TestCreate(sh.g_create)]
    /\ UNCHANGED formatvars

\* one turn of for ((i=1;;i++)): tgtadm --op show --tid $i
Target_Scan ==
    /\ sh.pc = "scan"
    /\ LET status == IF sh.i \in sh.tids THEN 0 ELSE 22
       IN  sh' = IF status # 0
                 THEN [sh EXCEPT !.pc = "register", !.g_tid = sh.i,
                                 !.status = status, !.cmds = Append(@, "show")]
                 ELSE [sh EXCEPT !.i = sh.i + 1,
                                 !.status = status, !.cmds = Append(@, "show")]
    /\ UNCHANGED formatvars

\* the next of the four tgtadm calls; the script goes on whatever it returns
\* and ends with the status of the last one
Target_Tgtadm ==
    /\ sh.pc = "register"
    /\ \E rc \in ExitStatuses :
          sh' = [sh EXCEPT !.cmds = Append(@, TgtOps[sh.op]),
                           !.status = rc,
                           !.tids = IF sh.op = 1 /\ rc = 0
                                    THEN @ \cup {sh.g_tid} ELSE @,
                           !.op = IF sh.op < Len(TgtOps) THEN sh.op + 1 ELSE sh.op,
                           !.pc = IF sh.op < Len(TgtOps) THEN "register" ELSE "done",
                           !.exit = IF sh.op < Len(TgtOps) THEN sh.exit ELSE rc]
    /\ UNCHANGED formatvars

(* ---------------------------- specification ---------------------------- *)

\* the record an earlier format of /dev/sdb left in fstab
OldRecord == DropChars(Express2add(UUID_A, MP0), 4)

\* the file before the tasks run
FSTab0 == <<RootLine, OldRecord>>

\* a work container a run of an earlier day left on the host
InitContainer(name) ==
    [name |-> name, id |-> ContainerId(name), state |-> "started",
     volume |-> [HostPath |-> MP0, ContainerPath |-> ChunkfilePoolRootDir],
     script |-> TRUE]

InitVars ==
    [oldContainerId |-> EMPTY, containerId |-> EMPTY, oldUUID |-> EMPTY,
     uuid |-> EMPTY, success |-> FALSE, express2del |-> EMPTY,
     express2add |-> EMPTY]

Init ==
    /\ fc \in [Tasks -> FormatConfigs]
    /\ fc[1].device = "/dev/sdb"
    /\ pc = [t \in Tasks |-> 1]
    /\ outcome = [t \in Tasks |-> [status |-> "running", err |-> Nil]]
    /\ vars = [t \in Tasks |-> InitVars]
    /\ edit = [t \in Tasks |-> [pc |-> 0, now |-> <<>>, err |-> Nil]]
    /\ locked = FALSE
    /\ \E pre \in SUBSET {device2ContainerName("/dev/sdb")} :
          host = [containers |-> {InitContainer(n) : n \in pre},
                  mounts |-> {}, dirs |-> {}, formatted |-> {}, images |-> {},
                  files |-> (GetFSTabPath :> FSTab0), writes |-> <<>>]
    /\ today = 0
    /\ log = [t \in Tasks |-> <<>>]
    /\ sh = TargetOff

Next ==
    \/ \E t \in Tasks : TaskStep(t)
    \/ \E t \in Tasks : Execute(t)
    \/ \E t \in Tasks : SubStep(t)
    \/ \E t \in Tasks : ExecuteReturn(t)
    \/ Tick

Spec == Init /\ [][Next]_allvars

\* the script is started on a host that has some targets already, while no
\* format task has begun
InitTarget ==
    /\ fc = [t \in Tasks |-> CHOOSE c \in FormatConfigs : c.device = "/dev/sdb"]
    /\ pc = [t \in Tasks |-> 1]
    /\ outcome = [t \in Tasks |-> [status |-> "running", err |-> Nil]]
    /\ vars = [t \in Tasks |-> InitVars]
    /\ edit = [t \in Tasks |-> [pc |-> 0, now |-> <<>>, err |-> Nil]]
    /\ locked = FALSE
    /\ host = [containers |-> {}, mounts |-> {}, dirs |-> {}, formatted |-> {},
               images |-> {}, files |-> (GetFSTabPath :> FSTab0), writes |-> <<>>]
    /\ today = 0
    /\ log = [t \in Tasks |-> <<>>]
    /\ \E g \in CreateFlags, tids \in SUBSET (1..MaxTid) : sh = TargetStart(g, tids)

NextTarget ==
    \/ Target_Prepare
    \/ Target_Create
    \/ Target_Scan
    \/ Target_Tgtadm

SpecTarget == InitTarget /\ [][NextTarget]_allvars

(* ------------------------- observation helpers ------------------------ *)

Terminal(t) == ~Running(t)

EditLabels == {"backup fstab", "uuid for device", "check uuid", "generate record",
               "remove old record", "add new record"}

\* the labels of the steps that make no remote call
LocalLabels == {"skip check", "check uuid", "generate record", "edit fstab"}

TaskLog(t) == SelectSeq(log[t], LAMBDA e : e[1] \notin EditLabels)
EditLog(t) == SelectSeq(log[t], LAMBDA e : e[1] \in EditLabels)

Ran(t, label) == \E i \in DOMAIN log[t] : log[t][i][1] = label
RanWith(t, label, res) == \E i \in DOMAIN log[t] : log[t][i] = <<label, res>>

LogLabels(l) == [i \in DOMAIN l |-> l[i][1]]
StepLabels(l) == [i \in DOMAIN l |-> l[i].label]

AllButLastContinue(l) == \A i \in DOMAIN l : i < Len(l) => l[i][2] = "continue"

\* task t waits for, or is about to call, the transaction of its fstab step
AtEdit(t) ==
    /\ Running(t)
    /\ pc[t] <= Len(Steps(t))
    /\ CurStep(t).kind = "step2EditFSTab"
    /\ ~InTX(t)

\* task t has run its first sub-step and not yet its last
Mid(t) == InTX(t) /\ edit[t].pc > 1 /\ edit[t].pc <= Len(EditSteps(t))

\* the fstab step of task t has returned to the engine
EditEnded(t) == Ran(t, "edit fstab")

\* every command step task t ran returned without an error
AllRemoteOk(t) ==
    \A i \in DOMAIN log[t] :
        log[t][i][1] \notin LocalLabels => log[t][i][2] = "continue"

HexDigits == {"0","1","2","3","4","5","6","7","8","9","a","b","c","d","e","f",
              "A","B","C","D","E","F"}

\* five hyphen-separated groups of 8, 4, 4, 4 and 12 hexadecimal characters
WellFormedUUID(u) ==
    /\ MatchDeviceUUID(Chars(u))
    /\ \A i \in 1..StrLen(u) :
          i \notin REEGX_DEVICE_UUID.hyphens => Chars(u)[i] \in HexDigits

FSTab == host.files[GetFSTabPath]

RECURSIVE CountRecords(_, _)
CountRecords(lines, uuid) ==
    IF lines = <<>> THEN 0
    ELSE (IF Contains(Chars(Head(lines)), Chars(<<"UUID=">> \o uuid)) THEN 1 ELSE 0)
         + CountRecords(Tail(lines), uuid)

\* what the edits task t made do to a file, run on their own
EditEffect(t, lines) ==
    LET afterDel == IF RanWith(t, "remove old record", "continue")
                    THEN SedScript(lines, vars[t].express2del).lines ELSE lines
    IN  IF RanWith(t, "add new record", "continue")
        THEN SedScript(afterDel, vars[t].express2add).lines ELSE afterDel

RECURSIVE SerialResults(_, _)
SerialResults(S, lines) ==
    IF S = {} THEN {lines}
    ELSE UNION {SerialResults(S \ {t}, EditEffect(t, lines)) : t \in S}

FullOrder ==
    <<"list containers", "skip check", "probe old uuid", "umount", "mkdir", "mkfs",
      "mount", "edit fstab", "pull image", "create container", "install script",
      "start container">>

(* -------------------------------- claims ------------------------------- *)

\* C1: at every instant at most one execution of the fstab-edit composite
\* is between taking and releasing the lock of the store.
C1_MutualExclusion == Cardinality({t \in Tasks : InTX(t)}) <= 1

\* one task is inside the transaction while another one waits for it
C1_Witness ==
    \E t, u \in Tasks : t # u /\ InTX(t) /\ locked /\ AtEdit(u)

\* C2: no sub-step of one execution of the edit protocol runs between the
\* first and the last sub-step of another one, the composite returns to the
\* engine only when its loop is over, and when no execution is under way
\* the file holds what the executions that ended produce when run one after
\* the other in some order.
C2_Serialized ==
    /\ [][\A t \in Tasks :
            (Len(EditLog(t)') > Len(EditLog(t)))
            => \A u \in Tasks \ {t} : ~Mid(u)]_allvars
    /\ [][\A t \in Tasks :
            (~EditEnded(t) /\ EditEnded(t)')
            => (edit[t].pc > Len(EditSteps(t)) /\ Len(EditLog(t)) >= 1)]_allvars
    /\ []((\A t \in Tasks : ~InTX(t))
          => FSTab \in SerialResults({t \in Tasks : EditEnded(t)}, FSTab0))

\* one execution has ended and another one is between its sub-steps
C2_Witness ==
    \E t, u \in Tasks : t # u /\ EditEnded(t) /\ Len(EditLog(t)) >= 3 /\ Mid(u)

\* C3: when the container listing returns a non-empty id the task ends
\* skipped right after the skip check and no later step runs.
C3_SkipWhenContainerExists ==
    \A t \in Tasks :
        (RanWith(t, "list containers", "continue") /\ StrLen(vars[t].oldContainerId) > 0)
        => /\ Len(log[t]) <= 2
           /\ Len(log[t]) = 2 =>
                /\ log[t][2] = <<"skip check", "skip">>
                /\ outcome[t].status = "skipped"
           /\ \A l \in {"probe old uuid", "umount", "mkdir", "mkfs", "mount",
                        "edit fstab", "backup fstab", "uuid for device",
                        "remove old record", "add new record", "pull image",
                        "create container", "install script", "start container"} :
                 ~Ran(t, l)

\* a task found the work container of its device and ended skipped
C3_Witness ==
    \E t \in Tasks :
        /\ outcome[t].status = "skipped"
        /\ \E c \in host.containers :
              c.name = device2ContainerName(fc[t].device) /\ c.id = vars[t].oldContainerId

\* C4: with no work container, every remote operation succeeding and a
\* well-formed UUID probed, the task runs all its steps in order, ends
\* succeeded and leaves the work container started with the mount point
\* bound into it.
C4_HappyPathSucceeds ==
    \A t \in Tasks :
        ( /\ Terminal(t)
          /\ RanWith(t, "list containers", "continue")
          /\ StrLen(vars[t].oldContainerId) = 0
          /\ AllRemoteOk(t)
          /\ RanWith(t, "uuid for device", "continue")
          /\ WellFormedUUID(vars[t].uuid) )
        => /\ outcome[t].status = "succeeded"
           /\ LogLabels(TaskLog(t)) = FullOrder
           /\ \E c \in host.containers :
                 /\ c.name = device2ContainerName(fc[t].device)
                 /\ c.state = "started"
                 /\ c.volume.HostPath = fc[t].mountPoint

\* C5: two executions of the edit protocol for the same device, one after
\* the other, both probing the same new UUID and both appending, leave
\* exactly one record for that UUID in the file.
C5_OneRecordAfterTwoRuns ==
    \A t, u \in Tasks :
        ( /\ t # u
          /\ fc[t].device = fc[u].device
          /\ EditEnded(t) /\ EditEnded(u)
          /\ AllRemoteOk(t) /\ AllRemoteOk(u)
          /\ RanWith(t, "uuid for device", "continue")
          /\ RanWith(u, "uuid for device", "continue")
          /\ Chars(vars[t].uuid) = Chars(vars[u].uuid)
          /\ WellFormedUUID(vars[t].uuid) )
        => CountRecords(FSTab, vars[t].uuid) = 1

\* C6: whenever the probe of the edit protocol hands back a string with the
\* marker "not a block device", the probe reported as failed or not, the
\* task fails with the not-a-block-device kind carrying host and device, and
\* neither edit of the file runs.
C6_MarkerMeansNotABlockDevice ==
    \A t \in Tasks :
        ( /\ Terminal(t)
          /\ Ran(t, "uuid for device")
          /\ Contains(Chars(vars[t].uuid), Chars(SIGNATURE_NOT_A_BLOCK_DEVICE)) )
        => /\ outcome[t].status = "failed"
           /\ outcome[t].err = ERR_NOT_A_BLOCK_DEVICE(fc[t].host, fc[t].device)
           /\ ~Ran(t, "remove old record")
           /\ ~Ran(t, "add new record")

\* C7 as stated: whenever the probe hands back a string that does not match
\* the pattern, the task fails with the device-metadata-invalid kind and
\* neither the backup nor an edit of the file has run.
C7_NoBackupNoEdit ==
    \A t \in Tasks :
        ( /\ Terminal(t)
          /\ RanWith(t, "uuid for device", "continue")
          /\ ~MatchDeviceUUID(Chars(vars[t].uuid)) )
        => /\ outcome[t].status = "failed"
           /\ outcome[t].err.kind = "ERR_GET_DEVICE_UUID_FAILED"
           /\ ~Ran(t, "backup fstab")
           /\ ~Ran(t, "remove old record")
           /\ ~Ran(t, "add new record")

\* C7 (amended): whenever the probe step returns a string that does not
\* match the pattern and does not hold the marker, the task fails with the
\* device-metadata-invalid kind carrying host, device and the string, and no
\* edit of the file runs; the backup copy has run, before the probe.
C7_InvalidUUIDNoEdit ==
    \A t \in Tasks :
        ( /\ Terminal(t)
          /\ RanWith(t, "uuid for device", "continue")
          /\ ~MatchDeviceUUID(Chars(vars[t].uuid))
          /\ ~Contains(Chars(vars[t].uuid), Chars(SIGNATURE_NOT_A_BLOCK_DEVICE)) )
        => /\ outcome[t].status = "failed"
           /\ outcome[t].err =
                ERR_GET_DEVICE_UUID_FAILED(fc[t].host, fc[t].device, vars[t].uuid)
           /\ EditLog(t) = << <<"backup fstab", "continue">>,
                              <<"uuid for device", "continue">>,
                              <<"check uuid", "fail">> >>

\* a task failed on a probed string that is too short to match, after the
\* backup was written
C7_Witness ==
    \E t \in Tasks :
        /\ outcome[t].status = "failed"
        /\ RanWith(t, "check uuid", "fail")
        /\ vars[t].uuid = UUID_SHORT
        /\ \E d \in 0..MaxDay : BackupPath(FormatDate(d)) \in DOMAIN host.files

\* C8: whenever an execution of the composite has ended, with or without an
\* error, it no longer holds the lock: the lock is held only while some
\* execution is inside the transaction, so a waiting one can take it.
C8_LockReleased ==
    /\ locked => \E t \in Tasks : InTX(t)
    /\ \A t \in Tasks : EditEnded(t) => ~InTX(t)
    /\ \A t \in Tasks : (AtEdit(t) /\ \A u \in Tasks : ~InTX(u)) => ENABLED Execute(t)

\* an execution ended with an error and another one is inside after it
C8_Witness ==
    \E t, u \in Tasks :
        t # u /\ RanWith(t, "edit fstab", "fail") /\ InTX(u) /\ edit[u].pc > 1

\* C9: in the task and inside the composite, a step starts only if all the
\* steps before it returned continue, and the steps run in construction
\* order.
C9_NoStepAfterStop ==
    \A t \in Tasks :
        /\ AllButLastContinue(TaskLog(t))
        /\ AllButLastContinue(EditLog(t))
        /\ Len(TaskLog(t)) <= Len(Steps(t))
        /\ LogLabels(TaskLog(t)) = SubSeq(StepLabels(Steps(t)), 1, Len(TaskLog(t)))
        /\ (Terminal(t) /\ outcome[t].status # "succeeded")
              => TaskLog(t)[Len(TaskLog(t))][2] # "continue"
        /\ InTX(t) =>
              /\ Len(EditLog(t)) <= Len(EditSteps(t))
              /\ LogLabels(EditLog(t))
                    = SubSeq(StepLabels(EditSteps(t)), 1, Len(EditLog(t)))

\* a task stopped at a failing sub-step, another one at the skip check
C9_Witness ==
    \E t, u \in Tasks :
        /\ RanWith(t, "check uuid", "fail") /\ Terminal(t)
        /\ RanWith(u, "skip check", "skip") /\ Terminal(u)

\* C10: a task ends succeeded, skipped or failed with an error; it ends
\* skipped exactly when the listing succeeded with a non-empty id, and a
\* skip carries no error.
C10_Outcome ==
    \A t \in Tasks :
        /\ outcome[t].status \in {"running", "succeeded", "skipped", "failed"}
        /\ outcome[t].status = "failed"
              <=> (outcome[t].err # Nil /\ outcome[t].err # ERR_SKIP_TASK)
        /\ outcome[t].status # "failed" => outcome[t].err = Nil
        /\ Terminal(t) =>
              (outcome[t].status = "skipped"
                 <=> (RanWith(t, "list containers", "continue")
                      /\ StrLen(vars[t].oldContainerId) > 0))

\* one task ended skipped and another one failed
C10_Witness ==
    \E t, u \in Tasks :
        outcome[t].status = "skipped" /\ outcome[u].status = "failed"

(* ------------------------- more observation helpers -------------------- *)

\* the place of the step with that label in the log of task t
Pos(t, label) == CHOOSE i \in DOMAIN log[t] : log[t][i][1] = label

\* step a returned continue in task t before step b began
Before(t, a, b) ==
    \E i, j \in DOMAIN log[t] :
        i < j /\ log[t][i] = <<a, "continue">> /\ log[t][j][1] = b

\* the error the composite of task t holds, while inside and after it
EditErr(t) == IF InTX(t) THEN edit[t].err ELSE outcome[t].err

SameTarget(t, u) == fc[t].host = fc[u].host /\ fc[t].device = fc[u].device

\* C11: of two format tasks for the same host and device that are under
\* way at the same time, at most one has executed mkfs and at most one has
\* executed create-container.
C11_AtMostOneFormats ==
    \A t, u \in Tasks :
        (t # u /\ SameTarget(t, u) /\ Running(t) /\ Running(u))
        => /\ ~(Ran(t, "mkfs") /\ Ran(u, "mkfs"))
           /\ ~(Ran(t, "create container") /\ Ran(u, "create container"))

\* C13: the validation step returns continue exactly when the probe
\* succeeded, the string has no marker and is five hyphen-separated groups
\* of 8, 4, 4, 4 and 12 hexadecimal characters; with a failed probe or the
\* marker it fails with not-a-block-device, and otherwise with
\* device-metadata-invalid.
C13_Validation ==
    \A t \in Tasks :
        Ran(t, "check uuid")
        => LET ok == RanWith(t, "uuid for device", "continue")
               marker == Contains(Chars(vars[t].uuid),
                                  Chars(SIGNATURE_NOT_A_BLOCK_DEVICE))
           IN  IF ok /\ ~marker /\ WellFormedUUID(vars[t].uuid)
               THEN RanWith(t, "check uuid", "continue")
               ELSE /\ RanWith(t, "check uuid", "fail")
                    /\ EditErr(t).kind =
                          IF ~ok \/ marker THEN "ERR_NOT_A_BLOCK_DEVICE"
                          ELSE "ERR_GET_DEVICE_UUID_FAILED"

C15_StepOrder ==
    \A t \in Tasks :
        /\ StepLabels(Steps(t)) = FullOrder
        /\ Len(TaskLog(t)) <= Len(FullOrder)
        /\ LogLabels(TaskLog(t)) = SubSeq(FullOrder, 1, Len(TaskLog(t)))
        /\ Ran(t, "mkfs") => Before(t, "umount", "mkfs")
        /\ \A l \in EditLabels \cup {"edit fstab"} :
              Ran(t, l) => Before(t, "mount", l)
        /\ (InTX(t) \/ AtEdit(t)) => RanWith(t, "mount", "continue")
        /\ Ran(t, "start container")
              => /\ Before(t, "create container", "start container")
                 /\ Before(t, "install script", "start container")

\* a task has run mkfs, mounted the device and been through the fstab edit
C15_Witness ==
    \E t \in Tasks :
        /\ Before(t, "umount", "mkfs")
        /\ Before(t, "mount", "backup fstab")
        /\ Ran(t, "edit fstab")

\* C17: while the composite runs it holds an error exactly when its last
\* sub-step failed, and that error is the one of this sub-step; what the
\* composite and TX hand to the engine is this error, nil exactly when every
\* sub-step returned nil, and the task gets one result for the whole step.
C17_FirstErrorForwarded ==
    /\ [](\A t \in Tasks :
            InTX(t) =>
              LET l == EditLog(t)
                  failed == l # <<>> /\ l[Len(l)][2] = "fail"
              IN  /\ (edit[t].err # Nil) <=> failed
                  /\ failed =>
                       LET st == EditSteps(t)[Len(l)]
                       IN  IF st.kind = "checkDeviceUUID"
                           THEN edit[t].err =
                                  checkDeviceUUID(fc[t].host, fc[t].device,
                                                  vars[t].success, vars[t].uuid)
                           ELSE edit[t].err = ERR_REMOTE(st.kind))
    /\ [][\A t \in Tasks :
            (~EditEnded(t) /\ EditEnded(t)')
            => /\ outcome'[t].err = edit[t].err
               /\ (edit[t].err = Nil)
                    <=> (\A i \in DOMAIN EditLog(t) : EditLog(t)[i][2] = "continue")
               /\ edit[t].err # Nil => outcome'[t].status = "failed"
               /\ log'[t] = Append(log[t], <<"edit fstab", Result(edit[t].err)>>)]_allvars

\* a task failed with the error of the probe of the edit protocol, another
\* one with the error of the validation
C17_Witness ==
    \E t, u \in Tasks :
        /\ EditEnded(t) /\ outcome[t].err = ERR_REMOTE("BlockId")
        /\ EditEnded(u) /\ outcome[u].err.kind = "ERR_GET_DEVICE_UUID_FAILED"

BackupPaths == {BackupPath(FormatDate(d)) : d \in 0..MaxDay}

\* C16: a dated backup, once it exists, is never written again and keeps
\* its content; it is written by the first sub-step of an execution, with
\* the content the configuration file has before that execution edits it.
C16_BackupKept ==
    /\ [][\A p \in BackupPaths :
            IF p \in DOMAIN host.files
            THEN /\ p \in DOMAIN host.files'
                 /\ host.files'[p] = host.files[p]
                 /\ Writes(host', p) = Writes(host, p)
            ELSE p \in DOMAIN host.files'
                 => /\ host.files'[p] = host.files[GetFSTabPath]
                    /\ \E t \in Tasks :
                          /\ EditLog(t) = <<>>
                          /\ EditLog(t)' = << <<"backup fstab", "continue">> >>]_allvars
    /\ [](\A p \in BackupPaths : Writes(host, p) <= 1)

\* two executions of the same date have run their backup step
C16_Witness ==
    \E t, u \in Tasks :
        /\ t # u
        /\ RanWith(t, "backup fstab", "continue")
        /\ RanWith(u, "backup fstab", "continue")
        /\ Cardinality(DOMAIN host.files \cap BackupPaths) = 1

\* task t is the only one that works on its device
OnlyOnDevice(t) == \A u \in Tasks \ {t} : fc[u].device # fc[t].device

\* C18: a step that fails and the end of a failed task change nothing on
\* the host, and what the steps before the failure did is still there when
\* the task has failed: the directory, the filesystem, the mount (or the
\* unmount), the backup; the configuration file is not put back.
C18_NoCompensation ==
    /\ [][\A t \in Tasks :
            \/ /\ Len(log'[t]) > Len(log[t])
               /\ log'[t][Len(log'[t])][2] = "fail"
            \/ /\ outcome[t].status # "failed"
               /\ outcome'[t].status = "failed"
            => host' = host]_allvars
    /\ [](\A t \in Tasks :
            outcome[t].status = "failed" =>
              /\ RanWith(t, "mkdir", "continue") => fc[t].mountPoint \in host.dirs
              /\ RanWith(t, "mkfs", "continue") => fc[t].device \in host.formatted
              /\ (OnlyOnDevice(t) /\ RanWith(t, "mount", "continue"))
                    => <<fc[t].device, fc[t].mountPoint>> \in host.mounts
              /\ (OnlyOnDevice(t) /\ RanWith(t, "umount", "continue")
                    /\ ~RanWith(t, "mount", "continue"))
                    => \A m \in host.mounts : m[1] # fc[t].device
              /\ RanWith(t, "backup fstab", "continue")
                    => DOMAIN host.files \cap BackupPaths # {}
              /\ Writes(host, GetFSTabPath) = 0)

\* a task failed inside the edit protocol after it mounted the device and
\* wrote the backup, another one failed at mkfs after the unmount
C18_Witness ==
    \E t, u \in Tasks :
        /\ outcome[t].status = "failed"
        /\ RanWith(t, "mount", "continue") /\ RanWith(t, "backup fstab", "continue")
        /\ outcome[u].status = "failed"
        /\ RanWith(u, "umount", "continue") /\ RanWith(u, "mkfs", "fail")

(* ------------------------------ fairness ------------------------------- *)

\* the first seven steps of a task, all done
FirstSteps == [i \in 1..7 |-> <<FullOrder[i], "continue">>]

\* every task has unmounted, formatted and mounted its device and is about
\* to call the fstab-edit composite
InitEdit ==
    /\ fc \in [Tasks -> FormatConfigs]
    /\ fc[1].device = "/dev/sdb"
    /\ pc = [t \in Tasks |-> 8]
    /\ outcome = [t \in Tasks |-> [status |-> "running", err |-> Nil]]
    /\ \E old \in {EMPTY, UUID_A} :
          vars = [t \in Tasks |-> [InitVars EXCEPT !.oldUUID = old]]
    /\ edit = [t \in Tasks |-> [pc |-> 0, now |-> <<>>, err |-> Nil]]
    /\ locked = FALSE
    /\ host = [containers |-> {},
               mounts |-> {<<fc[t].device, fc[t].mountPoint>> : t \in Tasks},
               dirs |-> {fc[t].mountPoint : t \in Tasks},
               formatted |-> {fc[t].device : t \in Tasks},
               images |-> {}, files |-> (GetFSTabPath :> FSTab0), writes |-> <<>>]
    /\ today = 0
    /\ log = [t \in Tasks |-> FirstSteps]
    /\ sh = TargetOff

\* the steps of the composite
NextEdit ==
    \/ \E t \in Tasks : Execute(t)
    \/ \E t \in Tasks : SubStep(t)
    \/ \E t \in Tasks : ExecuteReturn(t)
    \/ Tick

\* a task that can take a step of the composite eventually takes one: each
\* task runs in a goroutine of its own, a remote call returns, and a
\* goroutine that waits for the mutex gets it once it stays free
Fairness ==
    \A t \in Tasks :
        /\ WF_allvars(Execute(t))
        /\ WF_allvars(SubStep(t))
        /\ WF_allvars(ExecuteReturn(t))

FairSpec == InitEdit /\ [][NextEdit]_allvars /\ Fairness

\* C20: every call of the composite eventually takes the lock and returns;
\* whenever a task waits for the lock some task can take a step, and the
\* tasks never all wait for a lock that is held; no sub-step of the
\* composite is the composite itself, so the holder never asks for the lock
\* again.
C20_EveryCallReturns ==
    /\ \A t \in Tasks : AtEdit(t) ~> InTX(t)
    /\ \A t \in Tasks : InTX(t) ~> (EditEnded(t) /\ ~InTX(t))
    /\ [](\A t \in Tasks :
            AtEdit(t) =>
              \E u \in Tasks :
                  ENABLED Execute(u) \/ ENABLED SubStep(u) \/ ENABLED ExecuteReturn(u))
    /\ [](~(locked /\ \A t \in Tasks : AtEdit(t)))
    /\ [](\A t \in Tasks :
            InTX(t) => \A i \in DOMAIN EditSteps(t) :
                          EditSteps(t)[i].kind # "step2EditFSTab")

\* every task has called the composite and every call has returned
C20_Witness ==
    \A t \in Tasks : EditEnded(t) /\ ~InTX(t) /\ Len(EditLog(t)) >= 1

\* the tgtadm commands the script has executed
TgtCmds == SelectSeq(sh.cmds, LAMBDA c : c \in {"show", "new", "lun", "update", "bind"})

\* the script is past the creation of the volume
PastCreate == sh.pc \in {"scan", "register", "done"}

\* C12: the script goes on to the scan of the target ids and the tgtadm
\* calls exactly when the create flag is not "true", or the creation exits 0,
\* or it fails with the output "CreateFile fail with errCode: 101"; on any
\* other output of a failed creation it exits with status 1 and has executed
\* no tgtadm command.
C12_TargetRegistration ==
    LET flagTrue == Chars(sh.g_create) = Chars(<<"true">>)
        goesOn == \/ ~flagTrue
                  \/ sh.rc = 0
                  \/ Chars(sh.output) = Chars(CREATE_FILE_EXISTS)
    IN  PastCreate =>
          /\ flagTrue <=> (\E k \in DOMAIN sh.cmds : sh.cmds[k] = "create")
          /\ IF goesOn
             THEN sh.pc = "done" =>
                    /\ Len(TgtCmds) >= 5
                    /\ SubSeq(TgtCmds, Len(TgtCmds) - 3, Len(TgtCmds)) = TgtOps
                    /\ \A k \in 1..(Len(TgtCmds) - 4) : TgtCmds[k] = "show"
                    /\ sh.exit = sh.status
             ELSE /\ sh.pc = "done"
                  /\ sh.exit = 1
                  /\ TgtCmds = <<>>

\* the creation failed because the volume exists and the script has
\* registered the target
C12_Witness ==
    /\ sh.pc = "done"
    /\ sh.rc # 0
    /\ sh.output = CREATE_FILE_EXISTS
    /\ TgtCmds # <<>>
    /\ TgtCmds[Len(TgtCmds)] = "bind"

====
